---- MODULE Spec2Model ----
(***************************************************************************)
(* Model of the Rebuild-DB-Script repository: three variants of one        *)
(* script that deletes a managed Postgres database, creates a new one and  *)
(* repoints the account's web services at it.                              *)
(*                                                                         *)
(*   "index"     src/index.js          interactive menu, validating        *)
(*   "part_000"  src/unnamed/part_000  exported rebuildDatabase, validating*)
(*   "part_001"  src/unnamed/part_001  runs at load, event-detail fan-out  *)
(*                                                                         *)
(* JavaScript is single threaded: one action is one run of the event loop, *)
(* from the arrival of an HTTP response (or of the menu answer, or of a    *)
(* timer) up to the next await of an HTTP call.  Every HTTP call that is   *)
(* issued is appended to `calls`; every console line to `log`.             *)
(***************************************************************************)
EXTENDS Integers, Sequences, FiniteSets, TLC

VARIABLES
    variant,      \* which of the three source files is running
    cfg,          \* truthiness of databaseName, databaseKey, baseUrl, key
    answer,       \* the line read by rl.question ("": none yet)
    mpc,          \* position of the menu callback (index.js only)
    rl,           \* the readline interface: "open", "closed" ("none": no menu)
    timer,        \* the exit timer set by the close handler
    exited,       \* the process has ended
    pc,           \* position of rebuildDatabase
    calls,        \* the HTTP calls issued so far, in order
    replies,      \* the responses received so far, each with the call it answers
    log,          \* the console lines written so far, in order
    owner,        \* rebuildDatabase: const owner
    services,     \* rebuildDatabase / menu: const services
    database,     \* rebuildDatabase / menu: const database
    newDb,        \* rebuildDatabase: const newDb
    idx,          \* rebuildDatabase: position of the for-of loop
    svcListing,   \* response.data of GET /services
    dbListing,    \* response.data of GET /postgres
    fanServices,  \* part_001 fetchServices: const services (filtered, mapped)
    slots,        \* part_001 fetchServices: the result slots of Promise.all
    events,       \* part_001 fetchEventDetails: response.data of GET .../events
    latestDetails,\* part_001 fetchEventDetails: const latestDetails
    epc           \* position of fetchEventDetails taken on its own

vars == <<variant, cfg, answer, mpc, rl, timer, exited, pc, calls, replies, log, owner,
          services, database, newDb, idx, svcListing, dbListing,
          fanServices, slots, events, latestDetails, epc>>

----------------------------------------------------------------------------
(* Bounds of the model *)

MaxServices == 2
MaxDatabases == 2
MaxEvents == 3

----------------------------------------------------------------------------
(* JavaScript values *)

\* the value undefined, and its rendering in a template literal
Undefined == [jsundefined |-> TRUE]
UndefinedStr == "undefined"
\* the object literal {}
EmptyObj == <<>>
\* obj.f for an object: undefined when the property is absent
Get(obj, f) == IF f \in DOMAIN obj THEN obj[f] ELSE UndefinedStr

Variants == {"index", "part_000", "part_001"}

SvcName == <<"s1", "s2", "s3", "s4">>
DbName == <<"d1", "d2", "d3", "d4">>
ServiceIds == {SvcName[i] : i \in 1..MaxServices}
DatabaseIds == {DbName[i] : i \in 1..MaxDatabases}
ServiceTypes == {"web_service", "static_site"}
OwnerIds == {"o1", "o2"}
NewDbIds == {"n1"}
ConnStrings == {"cs1", "cs2"}
DetailValues == {"deploy_a"}
Answers == {"1", "2", "3", "4", "x"}

Injective(s) == \A i, j \in 1..Len(s) : s[i] = s[j] => i = j
SeqsUpTo(S, n) == UNION {[1..k -> S] : k \in 0..n}

\* the entries {event: {type, timestamp, details}} of GET /services/:id/events;
\* a timestamp is an instant, a greater number is a later instant
EventTypes == {"deploy_ended", "build_ended"}
Timestamps == 1..MaxEvents
EventDetails == {[deployId |-> "dep1"], [deployId |-> "dep2"]}
EventEntries ==
    {[event |-> [type |-> ty, timestamp |-> ts, details |-> d]] :
        ty \in EventTypes, ts \in Timestamps, d \in EventDetails}
EventListings == SeqsUpTo(EventEntries, MaxEvents)

\* response.data of GET /services: entries {service: {id, type}} with distinct ids
ServiceListings ==
    {[i \in 1..Len(ids) |-> [service |-> [id |-> ids[i], type |-> ty[i]]]] :
        <<ids, ty>> \in {p \in SeqsUpTo(ServiceIds, MaxServices)
                               \X SeqsUpTo(ServiceTypes, MaxServices) :
                            Len(p[1]) = Len(p[2]) /\ Injective(p[1])}}

\* response.data of GET /postgres: entries {postgres: {id}} with distinct ids
DatabaseListings ==
    {[i \in 1..Len(ids) |-> [postgres |-> [id |-> ids[i]]]] :
        ids \in {s \in SeqsUpTo(DatabaseIds, MaxDatabases) : Injective(s)}}

\* the four values runScript / validateVariables test for truthiness
Configs == [databaseName : BOOLEAN, databaseKey : BOOLEAN,
            baseUrl : BOOLEAN, key : BOOLEAN]
AllSet == [databaseName |-> TRUE, databaseKey |-> TRUE,
           baseUrl |-> TRUE, key |-> TRUE]

----------------------------------------------------------------------------
(* HTTP calls *)

Call(m, ep, t, b) == [method |-> m, ep |-> ep, target |-> t, body |-> b]

OwnerCall == Call("GET", "owners", "-", "-")
ServicesCall == Call("GET", "services", "-", "-")
EventsCall(serviceId) == Call("GET", "events", serviceId, "-")
DatabaseCall == Call("GET", "postgres", "-", "-")
\* the connection-info call, had it been addressed to the fetched database
ConnInfoCallMut(databaseId) == Call("GET", "connection-info", Get(database, "id"), "-")
ConnInfoCall(databaseId) == Call("GET", "connection-info", databaseId, "-")
CreateCall(ownerId) == Call("POST", "postgres", "-", ownerId)
DeleteCall(databaseId) == Call("DELETE", "postgres", databaseId, "-")
EnvVarCall(serviceId, envValue) == Call("PUT", "env-vars", serviceId, envValue)
DeployCall(serviceId) == Call("POST", "deploys", serviceId, "-")

----------------------------------------------------------------------------
(* HTTP responses.  axios resolves with {status, data} for a 2xx status and *)
(* rejects (throws at the await) for every other status or a network error.*)

Rejected == [throws |-> TRUE, status |-> 0, data |-> <<>>]
Resolved(st, d) == [throws |-> FALSE, status |-> st, data |-> d]
OkStatuses == {200, 204}

OwnerResponses ==
    {Rejected}
    \cup {Resolved(200, <<[owner |-> [id |-> o]]>>) : o \in OwnerIds}
    \cup {Resolved(st, <<>>) : st \in OkStatuses}
ServicesResponses == {Rejected} \cup {Resolved(200, d) : d \in ServiceListings}
EventsResponses == {Rejected} \cup {Resolved(200, d) : d \in DetailValues}
DatabaseResponses == {Rejected} \cup {Resolved(200, d) : d \in DatabaseListings}
DeleteResponses == {Rejected} \cup {Resolved(st, <<>>) : st \in OkStatuses}
CreateResponses == {Rejected} \cup {Resolved(201, [id |-> n]) : n \in NewDbIds}
ConnInfoResponses ==
    {Rejected} \cup {Resolved(200, [internalConnectionString |-> s]) : s \in ConnStrings}
PlainResponses == {Rejected, Resolved(200, <<>>)}

----------------------------------------------------------------------------
(* The accessors, as functions of the response of their one HTTP call.     *)
(* A result is {threw, value}: threw when the accessor logs and re-throws. *)

Threw == [threw |-> TRUE, value |-> Undefined]
Returned(v) == [threw |-> FALSE, value |-> v]

\* fetchOwner, had its non-200 branch raised instead of falling off the end
fetchOwnerMut(r) ==
    IF r.throws THEN Threw
    ELSE IF r.status = 200 /\ Len(r.data) # 0
         THEN Returned(r.data[1].owner)
         ELSE Threw

\* fetchOwner: the owner of data[0] on status 200, else falls off the end
fetchOwner(r) ==
    IF r.throws THEN Threw
    ELSE IF r.status = 200
         THEN IF Len(r.data) = 0 THEN Threw  \* data[0] is undefined: TypeError
              ELSE Returned(r.data[1].owner)
         ELSE Returned(Undefined)

\* fetchServices, had it returned the listing unfiltered
FilterWebServicesMut(data) == data

\* response.data.filter((item) => item.service.type === "web_service")
FilterWebServices(data) ==
    SelectSeq(data, LAMBDA item : item.service.type = "web_service")

\* .map((item) => item.service)
MapToService(items) == [i \in 1..Len(items) |-> items[i].service]

\* .filter((service) => service !== null)
Null == [jsnull |-> TRUE]
Pending == [pending |-> TRUE]
\* the final filter, had it kept the null slots
FilterNotNullMut(list) == list
FilterNotNull(list) == SelectSeq(list, LAMBDA service : service # Null)

\* fetchServices of index.js and part_000: the filtered listing entries
fetchServices(r) ==
    IF r.throws THEN Threw ELSE Returned(FilterNotNull(FilterWebServices(r.data)))

\* one branch of the fan-out of part_001: {name, id, type, details}, or null
\* when fetchEventDetails throws
DetailedService(svc, r) ==
    IF r.throws THEN Null
    ELSE [id |-> svc.id, type |-> svc.type, details |-> r.data]

\* fetchDatabase, had its catch returned {} instead of re-throwing
fetchDatabaseSwallow(r) ==
    Returned(IF ~r.throws /\ Len(r.data) # 0 THEN r.data[1].postgres ELSE EmptyObj)

\* fetchDatabase, had it taken the last database of the listing
fetchDatabaseLast(r) ==
    IF r.throws THEN Threw
    ELSE Returned(IF Len(r.data) # 0 THEN r.data[Len(r.data)].postgres ELSE EmptyObj)

\* fetchDatabase: the first database of the listing, or {}
fetchDatabase(r) ==
    IF r.throws THEN Threw
    ELSE Returned(IF Len(r.data) # 0 THEN r.data[1].postgres ELSE EmptyObj)

\* isEmpty, had it compared the object with a fresh {} (never equal)
isEmptyMut(obj) == FALSE

\* isEmpty: Object.values(obj).length === 0
isEmpty(obj) == DOMAIN obj = {}

\* the delete check, had it expected 200 instead of 204
DeleteFailedMut(deleteDb) == deleteDb.status # 200

\* rebuildDatabase: deleteDb.status !== 204
DeleteFailed(deleteDb) == deleteDb.status # 204

\* rebuildDatabase: service.id, of an element of the fetched services
ServiceId(service) == Get(service, "id")

\* the validation, had it left out the check of key
ValidMut(c) == c.databaseName /\ c.databaseKey /\ c.baseUrl

\* runScript / validateVariables: missing.length === 0
Valid(c) == c.databaseName /\ c.databaseKey /\ c.baseUrl /\ c.key

\* whether the variant validates before rebuilding
Validates(v) == v \in {"index", "part_000"}

----------------------------------------------------------------------------
(* Initial state: the script has been loaded, nothing has run.             *)

Init ==
    /\ variant \in Variants
    /\ cfg \in IF Validates(variant) THEN Configs ELSE {AllSet}
    /\ answer = ""
    /\ mpc = IF variant = "index" THEN "menu" ELSE "none"
    /\ rl = IF variant = "index" THEN "open" ELSE "none"
    /\ timer = "none"
    /\ exited = FALSE
    /\ pc = "idle"
    /\ calls = <<>>
    /\ replies = <<>>
    /\ log = <<>>
    /\ owner = Undefined
    /\ services = <<>>
    /\ database = EmptyObj
    /\ newDb = EmptyObj
    /\ idx = 0
    /\ svcListing = <<>>
    /\ dbListing = <<>>
    /\ fanServices = <<>>
    /\ slots = <<>>
    /\ events = <<>>
    /\ latestDetails = EmptyObj
    /\ epc = "idle"

menuVars == <<answer, mpc, rl, timer, exited>>
eventVars == <<events, latestDetails, epc>>
localVars == <<owner, services, database, newDb, idx, svcListing, dbListing,
               fanServices, slots>>

Last(s) == s[Len(s)]
\* the response r to call c is received
Reply(c, r) == replies' = Append(replies, [to |-> c, r |-> r])

----------------------------------------------------------------------------
(* rebuildDatabase, one action per await *)

\* the catch of rebuildDatabase, had it re-thrown like the accessors do
RebuildCatchMut(c, l) ==
    /\ calls' = c
    /\ log' = Append(l, "Error during database rebuild")
    /\ pc' = "rejected"

\* the catch of rebuildDatabase: log, and return normally
RebuildCatch(c, l) ==
    /\ calls' = c
    /\ log' = Append(l, "Error during database rebuild")
    /\ pc' = "resolved"

\* rebuildDatabase up to its first await (after validation, if any)
RebuildBegin ==
    /\ calls' = Append(calls, OwnerCall)
    /\ log' = Append(log, "Rebuilding database...")
    /\ pc' = "owner"

\* the statement `await createDatabase(owner.id)`: reading owner.id throws a
\* TypeError when owner is undefined, before createDatabase is called
CreateStep(c, l, own) ==
    IF own = Undefined
    THEN RebuildCatch(c, l)
    ELSE /\ calls' = Append(c, CreateCall(own.id))
         /\ log' = l
         /\ pc' = "create"

\* the head of the for-of loop at position i (1-based) of svcs
LoopStep(c, l, svcs, i, url) ==
    IF i > Len(svcs)
    THEN /\ calls' = c
         /\ log' = Append(l, "done!")
         /\ pc' = "resolved"
         /\ idx' = idx
    ELSE /\ calls' = Append(c, EnvVarCall(ServiceId(svcs[i]), url))
         /\ log' = l
         /\ pc' = "update"
         /\ idx' = i

\* part_000 and part_001: the module's entry into rebuildDatabase
Start ==
    /\ variant # "index" /\ pc = "idle" /\ ~exited
    /\ IF Validates(variant) /\ ~Valid(cfg)
       THEN /\ log' = Append(log, "The following variables still don't have a value")
            /\ pc' = "resolved"
            /\ calls' = calls
       ELSE RebuildBegin
    /\ UNCHANGED <<eventVars, variant, cfg, menuVars, replies, localVars>>

FetchOwnerReturns ==
    /\ pc = "owner" /\ ~exited
    /\ \E r \in OwnerResponses :
         /\ Reply(OwnerCall, r)
         /\ LET res == fetchOwner(r) IN
            IF res.threw
            THEN /\ RebuildCatch(calls, Append(log, "Error fetching owner"))
                 /\ owner' = owner
            ELSE /\ owner' = res.value
                 /\ calls' = Append(calls, ServicesCall)
                 /\ log' = log
                 /\ pc' = "services"
    /\ UNCHANGED <<eventVars, variant, cfg, menuVars, services, database, newDb, idx,
                   svcListing, dbListing, fanServices, slots>>

\* fetchServices returns (index.js, part_000), or its listing returns and
\* the fan-out is issued (part_001)
FetchServicesReturns ==
    /\ pc = "services" /\ ~exited
    /\ \E r \in ServicesResponses :
         /\ Reply(ServicesCall, r)
         /\ IF r.throws
            THEN /\ RebuildCatch(calls, Append(log, "Error fetching services"))
                 /\ UNCHANGED <<services, svcListing, fanServices, slots>>
            ELSE /\ svcListing' = r.data
                 /\ log' = log
                 /\ IF variant # "part_001"
                    THEN /\ services' = fetchServices(r).value
                         /\ calls' = Append(calls, DatabaseCall)
                         /\ pc' = "database"
                         /\ UNCHANGED <<fanServices, slots>>
                    ELSE LET svcs == MapToService(FilterWebServices(r.data)) IN
                         /\ fanServices' = svcs
                         /\ slots' = [i \in 1..Len(svcs) |-> Pending]
                         /\ IF Len(svcs) = 0
                            THEN /\ services' = FilterNotNull(<<>>)
                                 /\ calls' = Append(calls, DatabaseCall)
                                 /\ pc' = "database"
                            ELSE /\ services' = services
                                 /\ calls' = calls \o
                                      [i \in 1..Len(svcs) |-> EventsCall(svcs[i].id)]
                                 /\ pc' = "events"
    /\ UNCHANGED <<eventVars, variant, cfg, menuVars, owner, database, newDb, idx, dbListing>>

\* part_001: the events call of fan-out branch i returns; the last one to
\* return settles Promise.all and fetchServices returns
FetchEventDetailsReturns(i) ==
    /\ pc = "events" /\ ~exited
    /\ i \in DOMAIN slots /\ slots[i] = Pending
    /\ \E r \in EventsResponses :
         /\ Reply(EventsCall(fanServices[i].id), r)
         /\ LET filled == [slots EXCEPT ![i] = DetailedService(fanServices[i], r)]
                l == IF r.throws
                     THEN log \o <<"Error fetching event details for service ID",
                                   "Error fetching details for service ID">>
                     ELSE log
            IN
            /\ slots' = filled
            /\ log' = l
            /\ IF \A j \in DOMAIN filled : filled[j] # Pending
               THEN /\ services' = FilterNotNull(filled)
                    /\ calls' = Append(calls, DatabaseCall)
                    /\ pc' = "database"
               ELSE UNCHANGED <<services, calls, pc>>
    /\ UNCHANGED <<eventVars, variant, cfg, menuVars, owner, database, newDb, idx,
                   svcListing, dbListing, fanServices>>

FetchDatabaseReturns ==
    /\ pc = "database" /\ ~exited
    /\ \E r \in DatabaseResponses :
         /\ Reply(DatabaseCall, r)
         /\ LET res == fetchDatabase(r) IN
            IF res.threw
            THEN /\ RebuildCatch(calls, Append(log, "Error fetching database"))
                 /\ UNCHANGED <<database, dbListing>>
            ELSE /\ dbListing' = r.data
                 /\ database' = res.value
                 /\ IF ~isEmpty(res.value)
                    THEN /\ calls' = Append(calls, DeleteCall(Get(res.value, "id")))
                         /\ log' = log
                         /\ pc' = "delete"
                    ELSE CreateStep(calls, log, owner)
    /\ UNCHANGED <<eventVars, variant, cfg, menuVars, owner, services, newDb, idx,
                   svcListing, fanServices, slots>>

DeleteDatabaseReturns ==
    /\ pc = "delete" /\ ~exited
    /\ \E r \in DeleteResponses :
         /\ Reply(Last(calls), r)
         /\ IF r.throws
            THEN RebuildCatch(calls, Append(log, "Error deleting database ID"))
            ELSE IF DeleteFailed(r)
            THEN /\ log' = Append(log, "Failed to delete existing database.")
                 /\ pc' = "resolved"
                 /\ calls' = calls
            ELSE CreateStep(calls, log, owner)
    /\ UNCHANGED <<eventVars, variant, cfg, menuVars, localVars>>

CreateDatabaseReturns ==
    /\ pc = "create" /\ ~exited
    /\ \E r \in CreateResponses :
         /\ Reply(Last(calls), r)
         /\ IF r.throws
            THEN /\ RebuildCatch(calls, Append(log, "Error creating database"))
                 /\ newDb' = newDb
            ELSE /\ newDb' = [id |-> r.data.id]
                 /\ calls' = Append(calls, ConnInfoCall(r.data.id))
                 /\ log' = log
                 /\ pc' = "conninfo"
    /\ UNCHANGED <<eventVars, variant, cfg, menuVars, owner, services, database, idx,
                   svcListing, dbListing, fanServices, slots>>

FetchConnectionInfoReturns ==
    /\ pc = "conninfo" /\ ~exited
    /\ \E r \in ConnInfoResponses :
         /\ Reply(Last(calls), r)
         /\ IF r.throws
            THEN /\ RebuildCatch(calls, Append(log, "Error fetching details for database ID"))
                 /\ UNCHANGED <<newDb, idx>>
            ELSE /\ newDb' = [id |-> newDb.id,
                              internalDatabaseUrl |-> r.data.internalConnectionString]
                 /\ LoopStep(calls, log, services, 1, r.data.internalConnectionString)
    /\ UNCHANGED <<eventVars, variant, cfg, menuVars, owner, services, database,
                   svcListing, dbListing, fanServices, slots>>

UpdateEnvVariableReturns ==
    /\ pc = "update" /\ ~exited
    /\ \E r \in PlainResponses :
         /\ Reply(Last(calls), r)
         /\ IF r.throws
            THEN RebuildCatch(calls, Append(log, "Error updating environment variable for service ID"))
            ELSE /\ calls' = Append(calls, DeployCall(ServiceId(services[idx])))
                 /\ log' = log
                 /\ pc' = "deploy"
    /\ UNCHANGED <<eventVars, variant, cfg, menuVars, localVars>>

DeployServiceReturns ==
    /\ pc = "deploy" /\ ~exited
    /\ \E r \in PlainResponses :
         /\ Reply(Last(calls), r)
         /\ IF r.throws
            THEN /\ RebuildCatch(calls, Append(log, "Error deploying service ID"))
                 /\ idx' = idx
            ELSE LoopStep(calls, log, services, idx + 1, newDb.internalDatabaseUrl)
    /\ UNCHANGED <<eventVars, variant, cfg, menuVars, owner, services, database, newDb,
                   svcListing, dbListing, fanServices, slots>>

----------------------------------------------------------------------------
(* index.js: the menu, the close handler and the exit timer *)

\* case "4" and default, had they shown the menu again instead of closing
CloseSessionMut == rl' = rl /\ mpc' = "menu"
\* case "4" and default: rl.close(), and the callback ends
CloseSession == rl' = "closed" /\ mpc' = "done"

\* the rl.question callback up to its first await of an HTTP call; for "1"
\* that is runScript, which calls rebuildDatabase() without awaiting it, and
\* then rl.close()
Answer(a) ==
    /\ mpc = "menu" /\ ~exited
    /\ IF a = "1"
       THEN /\ IF ~Valid(cfg)
               THEN /\ log' = log \o <<"Running Rebuild Script...",
                                       "The following variables still don't have a value">>
                    /\ UNCHANGED <<calls, pc>>
               ELSE /\ log' = log \o <<"Running Rebuild Script...",
                                       "All variables are set. Rebuilding database...",
                                       "Rebuilding database...">>
                    /\ calls' = Append(calls, OwnerCall)
                    /\ pc' = "owner"
            /\ rl' = "closed"
            /\ mpc' = "done"
       ELSE IF a = "2"
       THEN /\ log' = Append(log, "Fetching Database Details...")
            /\ calls' = Append(calls, DatabaseCall)
            /\ mpc' = "view_database"
            /\ UNCHANGED <<rl, pc>>
       ELSE IF a = "3"
       THEN /\ log' = Append(log, "Fetching Service Details...")
            /\ calls' = Append(calls, ServicesCall)
            /\ mpc' = "view_services"
            /\ UNCHANGED <<rl, pc>>
       ELSE /\ log' = Append(log, IF a = "4" THEN "Exiting program..."
                                  ELSE "Invalid option. Please try again.")
            /\ CloseSession
            /\ UNCHANGED <<calls, pc>>
    /\ answer' = a
    /\ UNCHANGED <<eventVars, variant, cfg, timer, exited, replies, localVars>>

\* case "2": fetchDatabase returns; a throw is an unhandled rejection of the
\* callback, which never reaches rl.close()
ViewDatabaseReturns ==
    /\ mpc = "view_database" /\ ~exited
    /\ \E r \in DatabaseResponses :
         /\ Reply(Last(calls), r)
         /\ LET res == fetchDatabase(r) IN
            IF res.threw
            THEN /\ log' = Append(log, "Error fetching database")
                 /\ mpc' = "rejected"
                 /\ UNCHANGED <<calls, database, dbListing>>
            ELSE /\ dbListing' = r.data
                 /\ database' = res.value
                 /\ calls' = Append(calls, ConnInfoCall(Get(res.value, "id")))
                 /\ log' = log
                 /\ mpc' = "view_connection"
    /\ UNCHANGED <<eventVars, variant, cfg, answer, rl, timer, exited, pc, owner, services,
                   newDb, idx, svcListing, fanServices, slots>>

ViewConnectionInfoReturns ==
    /\ mpc = "view_connection" /\ ~exited
    /\ \E r \in ConnInfoResponses :
         /\ Reply(Last(calls), r)
         /\ IF r.throws
            THEN /\ log' = Append(log, "Error fetching details for database ID")
                 /\ mpc' = "rejected"
                 /\ rl' = rl
            ELSE /\ log' = log \o <<"Database: ", "Connection Info: ">>
                 /\ mpc' = "done"
                 /\ rl' = "closed"
    /\ UNCHANGED <<eventVars, variant, cfg, answer, timer, exited, pc, calls, localVars>>

\* case "3": fetchServices returns
ViewServicesReturns ==
    /\ mpc = "view_services" /\ ~exited
    /\ \E r \in ServicesResponses :
         /\ Reply(Last(calls), r)
         /\ LET res == fetchServices(r) IN
            IF res.threw
            THEN /\ log' = Append(log, "Error fetching services")
                 /\ mpc' = "rejected"
                 /\ UNCHANGED <<rl, services, svcListing>>
            ELSE /\ svcListing' = r.data
                 /\ services' = res.value
                 /\ log' = Append(log, "Services: ")
                 /\ mpc' = "done"
                 /\ rl' = "closed"
    /\ UNCHANGED <<eventVars, variant, cfg, answer, timer, exited, pc, calls, owner, database,
                   newDb, idx, dbListing, fanServices, slots>>

\* the menu callback is an async function nobody awaits and none of its
\* cases has a try/catch: a throw in case "2" or "3" is an unhandled promise
\* rejection. What the runtime does with it depends on its version: it ends
\* the process with an uncaught exception, or only prints a warning and keeps
\* running. Either way rl.close() is never reached.
UnhandledRejection ==
    /\ mpc = "rejected" /\ ~exited
    /\ \E crash \in BOOLEAN :
         /\ mpc' = IF crash THEN "crashed" ELSE "warned"
         /\ exited' = crash
    /\ UNCHANGED <<eventVars, variant, cfg, answer, rl, timer, pc, calls, replies, log, localVars>>

\* rl.on("close"): log and set the 5000 ms timer
OnClose ==
    /\ rl = "closed" /\ timer = "none" /\ ~exited
    /\ log' = Append(log, "Exiting program.")
    /\ timer' = "armed"
    /\ UNCHANGED <<eventVars, variant, cfg, answer, mpc, rl, exited, pc, calls, replies, localVars>>

\* the timer fires: process.exit(0); nothing runs afterwards
TimerFires ==
    /\ timer = "armed" /\ ~exited
    /\ timer' = "fired"
    /\ exited' = TRUE
    /\ UNCHANGED <<eventVars, variant, cfg, answer, mpc, rl, pc, calls, replies, log, localVars>>

----------------------------------------------------------------------------

Next ==
    \/ Start
    \/ FetchOwnerReturns
    \/ FetchServicesReturns
    \/ \E i \in 1..MaxServices : FetchEventDetailsReturns(i)
    \/ FetchDatabaseReturns
    \/ DeleteDatabaseReturns
    \/ CreateDatabaseReturns
    \/ FetchConnectionInfoReturns
    \/ UpdateEnvVariableReturns
    \/ DeployServiceReturns
    \/ \E a \in Answers : Answer(a)
    \/ ViewDatabaseReturns
    \/ ViewConnectionInfoReturns
    \/ ViewServicesReturns
    \/ UnhandledRejection
    \/ OnClose
    \/ TimerFires

Spec == Init /\ [][Next]_vars

\* The event loop runs a callback that is ready, every HTTP call is answered
\* or fails, the user answers the prompt and an armed timer fires: a step that
\* can be taken is eventually taken.
LiveSpec == Init /\ [][Next]_vars /\ WF_vars(Next)

----------------------------------------------------------------------------
(* fetchEventDetails of part_001 taken on its own: the response of         *)
(* GET /services/:id/events is any listing of events, in any order.        *)

\* { ...event.details, lastDeployed: event.timestamp }
WithLastDeployed(event) ==
    [f \in DOMAIN event.details \cup {"lastDeployed"} |->
        IF f = "lastDeployed" THEN event.timestamp ELSE event.details[f]]

\* the callback of reduce
ReduceStep(obj, item) ==
    IF item.event.type = "deploy_ended" THEN WithLastDeployed(item.event) ELSE obj

\* response.data.reduce(callback, obj), left to right
RECURSIVE Reduce(_, _)
Reduce(data, obj) ==
    IF data = <<>> THEN obj ELSE Reduce(Tail(data), ReduceStep(obj, Head(data)))

fetchEventDetails(r) ==
    IF r.throws THEN Threw ELSE Returned(Reduce(r.data, EmptyObj))

InitEvents ==
    /\ variant = "part_001"
    /\ cfg = AllSet
    /\ answer = ""
    /\ mpc = "none"
    /\ rl = "none"
    /\ timer = "none"
    /\ exited = FALSE
    /\ pc = "idle"
    /\ calls = <<EventsCall("s1")>>
    /\ replies = <<>>
    /\ log = <<>>
    /\ owner = Undefined
    /\ services = <<>>
    /\ database = EmptyObj
    /\ newDb = EmptyObj
    /\ idx = 0
    /\ svcListing = <<>>
    /\ dbListing = <<>>
    /\ fanServices = <<>>
    /\ slots = <<>>
    /\ events \in EventListings
    /\ latestDetails = EmptyObj
    /\ epc = "call"

\* the awaited GET returns: the events are reduced, or the error is logged
\* and re-thrown
FetchEventDetailsCompletes ==
    /\ epc = "call"
    /\ \E r \in {Rejected, Resolved(200, events)} :
         /\ Reply(Last(calls), r)
         /\ LET res == fetchEventDetails(r) IN
            IF res.threw
            THEN /\ log' = Append(log, "Error fetching event details for service ID")
                 /\ epc' = "threw"
                 /\ UNCHANGED latestDetails
            ELSE /\ latestDetails' = res.value
                 /\ epc' = "returned"
                 /\ UNCHANGED log
    /\ UNCHANGED <<events, variant, cfg, menuVars, pc, calls, localVars>>

NextEvents == FetchEventDetailsCompletes

SpecEvents == InitEvents /\ [][NextEvents]_vars

----------------------------------------------------------------------------
(* Vocabulary of the properties *)

Mutating(c) == c.method \in {"DELETE", "POST", "PUT"}
Issued(c) == \E k \in 1..Len(calls) : calls[k] = c
IssuedTo(m, ep) == \E k \in 1..Len(calls) : calls[k].method = m /\ calls[k].ep = ep
Logged(line) == \E k \in 1..Len(log) : log[k] = line
\* some call of the kind (m, ep) has been answered by a response satisfying P
Answered(m, ep, P(_)) ==
    \E k \in 1..Len(replies) :
        replies[k].to.method = m /\ replies[k].to.ep = ep /\ P(replies[k].r)
\* the calls other than the event-detail reads of the service listing
MainCalls == SelectSeq(calls, LAMBDA c : c.ep # "events")
\* rebuildDatabase has been entered and has passed validation
Rebuilding == pc # "idle" /\ Issued(OwnerCall)
\* rebuildDatabase has run to its completion log
Completed == pc = "resolved" /\ Logged("done!")
\* the ids of the web services of a listing, in listing order
WebServiceIds(listing) ==
    LET web == SelectSeq(listing, LAMBDA e : e.service.type = "web_service")
    IN  [k \in 1..Len(web) |-> web[k].service.id]
\* an env-var PUT with value url followed by a deploy POST, for each id in turn
UpdateThenDeploy(ids, url) ==
    [k \in 1..(2 * Len(ids)) |->
        IF k % 2 = 1 THEN EnvVarCall(ids[(k + 1) \div 2], url)
        ELSE DeployCall(ids[k \div 2])]
NoResponseThrew == \A k \in 1..Len(replies) : ~replies[k].r.throws
IsThrow(r) == r.throws
IsNot204(r) == ~r.throws /\ r.status # 204
IsNot200(r) == ~r.throws /\ r.status # 200
IsOk(r) == ~r.throws
Is204(r) == ~r.throws /\ r.status = 204
\* the listing calls have been answered: svcListing, dbListing hold their data
ServicesListed == Answered("GET", "services", IsOk)
DatabasesListed == Answered("GET", "postgres", IsOk)

----------------------------------------------------------------------------
(* C1: in a run of rebuildDatabase where the owner lookup succeeds, the    *)
(* database listing is empty and every call succeeds, the calls are, in    *)
(* order: owner fetch, service listing, database listing, create with the  *)
(* fetched owner's id, connection-info for the created id, then for each   *)
(* listed web service an env-var PUT on it followed by a deploy POST on it.*)
(* (The event-detail reads of part_001's service listing are left aside.)  *)
C1_Expected(k) ==
    CASE k = 1 -> OwnerCall
      [] k = 2 -> ServicesCall
      [] k = 3 -> DatabaseCall
      [] k = 4 -> CreateCall(owner.id)
      [] k = 5 -> ConnInfoCall(newDb.id)
      [] OTHER -> UpdateThenDeploy(WebServiceIds(svcListing),
                                   newDb.internalDatabaseUrl)[k - 5]

\* the run so far satisfies the premises of C1
C1_Premises ==
    /\ Rebuilding
    /\ NoResponseThrew
    /\ Answered("GET", "owners", IsOk) => owner # Undefined
    /\ DatabasesListed => dbListing = <<>>

C1_CallSequence ==
    C1_Premises =>
        /\ Len(MainCalls) <= 5 + 2 * Len(WebServiceIds(svcListing))
        /\ \A k \in 1..Len(MainCalls) : MainCalls[k] = C1_Expected(k)
        /\ Completed => Len(MainCalls) = 5 + 2 * Len(WebServiceIds(svcListing))

\* C1 holds of part_001, whose fetchServices maps each entry to its service
C1_CallSequenceMapped == variant = "part_001" => C1_CallSequence

\* C1 up to the connection-info fetch holds of every variant
C1_CallSequencePrefix ==
    C1_Premises =>
        /\ \A k \in 1..Len(MainCalls) : k <= 5 => MainCalls[k] = C1_Expected(k)
        /\ \A k \in 1..Len(calls) : Mutating(calls[k]) => k > 3
        /\ Completed => Len(MainCalls) = 5 + 2 * Len(services)

----------------------------------------------------------------------------
(* C2: when the delete call returns normally with a status other than 204, *)
(* the failure is logged and no create-database, connection-info, env-var  *)
(* update or deploy call is issued in that run.                            *)
C2_DeleteNot204Aborts ==
    Answered("DELETE", "postgres", IsNot204) =>
        /\ Logged("Failed to delete existing database.")
        /\ ~IssuedTo("POST", "postgres")
        /\ ~IssuedTo("GET", "connection-info")
        /\ ~IssuedTo("PUT", "env-vars")
        /\ ~IssuedTo("POST", "deploys")
        /\ pc = "resolved"

C2_Witness ==
    /\ Answered("DELETE", "postgres", IsNot204)
    /\ owner # Undefined
    /\ Len(services) > 0

----------------------------------------------------------------------------
(* C3: in every run of rebuildDatabase whose database listing is empty, no *)
(* DELETE is ever issued and the step that follows the listing is the      *)
(* create statement: the create call carrying the owner's id is the next   *)
(* call issued, or, when the owner is undefined, reading owner.id there    *)
(* ends the run with no further call.                                      *)
C3_EmptyListingSkipsDelete ==
    (Rebuilding /\ DatabasesListed /\ dbListing = <<>>) =>
        /\ ~IssuedTo("DELETE", "postgres")
        /\ Last(MainCalls) # DatabaseCall
              => /\ owner # Undefined
                 /\ Len(MainCalls) >= 4
                 /\ MainCalls[3] = DatabaseCall
                 /\ MainCalls[4] = CreateCall(owner.id)
        /\ Last(MainCalls) = DatabaseCall
              => /\ owner = Undefined
                 /\ pc = "resolved"
                 /\ Logged("Error during database rebuild")

C3_Witness ==
    /\ Rebuilding /\ DatabasesListed /\ dbListing = <<>>
    /\ IssuedTo("POST", "postgres")
    /\ Len(services) > 0

----------------------------------------------------------------------------
(* C4: the services are processed one after another in the order of the    *)
(* fetched list: a deploy is issued only after the env-var update of the   *)
(* same service has returned successfully, the next update only after the  *)
(* previous deploy has returned, and in a completed run each fetched       *)
(* service receives exactly one update and exactly one deploy.             *)

\* the id of a fetched service, whichever shape fetchServices returned it in
FetchedId(s) == IF "service" \in DOMAIN s THEN s.service.id ELSE Get(s, "id")
CountCalls(m, ep, t) ==
    Cardinality({k \in 1..Len(calls) :
        calls[k].method = m /\ calls[k].ep = ep /\ calls[k].target = t})
\* the calls of the loop: those after the connection-info fetch
LoopCalls == SelectSeq(calls, LAMBDA c : c.ep \in {"env-vars", "deploys"})
LoopReplies == SelectSeq(replies, LAMBDA p : p.to.ep \in {"env-vars", "deploys"})

\* every loop call but the last has been answered without a throw, updates
\* and deploys alternate, and the calls of iteration i go to idOf(services[i])
C4_Order(idOf(_)) ==
    (Rebuilding /\ Len(LoopCalls) > 0) =>
        /\ Len(LoopReplies) \in {Len(LoopCalls) - 1, Len(LoopCalls)}
        /\ Len(LoopCalls) <= 2 * Len(services)
        /\ \A k \in 1..Len(LoopCalls) :
              /\ LoopCalls[k].ep = IF k % 2 = 1 THEN "env-vars" ELSE "deploys"
              /\ LoopCalls[k].target = idOf(services[(k + 1) \div 2])
              /\ k < Len(LoopCalls) =>
                    /\ LoopReplies[k].to = LoopCalls[k]
                    /\ ~LoopReplies[k].r.throws
        /\ Completed => Len(LoopCalls) = 2 * Len(services)

C4_SequentialPerService ==
    /\ C4_Order(FetchedId)
    /\ Completed =>
          \A i \in 1..Len(services) :
              /\ CountCalls("PUT", "env-vars", FetchedId(services[i])) = 1
              /\ CountCalls("POST", "deploys", FetchedId(services[i])) = 1

\* the ordering of C4 holds of every variant when "its update" and "its
\* deploy" are the calls made for the service, wherever they are addressed
C4_OneAtATime == C4_Order(ServiceId)

\* C4 holds of part_001
C4_SequentialPerServiceMapped == variant = "part_001" => C4_SequentialPerService

----------------------------------------------------------------------------
(* C5: if an accessor call of rebuildDatabase (owner fetch, service        *)
(* listing, database listing, delete, create, connection-info, env-var     *)
(* update, deploy) throws, no further HTTP call is issued in that run, the *)
(* top-level catch logs the error, and rebuildDatabase completes normally. *)

\* the accessor that made the call of reply p threw
AccessorThrew(p) ==
    \/ p.r.throws
    \/ p.to = OwnerCall /\ p.r.status = 200 /\ Len(p.r.data) = 0

C5_ThrowAborts ==
    \A k \in 1..Len(replies) :
        (Rebuilding /\ replies[k].to.ep # "events" /\ AccessorThrew(replies[k])) =>
            /\ k = Len(replies)
            /\ Last(calls) = replies[k].to
            /\ Logged("Error during database rebuild")
            /\ pc = "resolved"

C5_Witness ==
    /\ Answered("PUT", "env-vars", IsThrow)
    /\ Len(services) = 2
    /\ ~IssuedTo("POST", "deploys")
    /\ pc = "resolved"

----------------------------------------------------------------------------
(* C6: in the validating variants, when a rebuild is requested and one of  *)
(* the four required values is unset or empty, the run is skipped with a   *)
(* message and no HTTP call of any kind is made.                           *)

RebuildRequested ==
    \/ variant = "part_000" /\ pc # "idle"
    \/ variant = "index" /\ answer = "1"

C6_InvalidConfigNoCalls ==
    (Validates(variant) /\ RebuildRequested
        /\ ~(cfg.databaseName /\ cfg.databaseKey /\ cfg.baseUrl /\ cfg.key)) =>
        /\ calls = <<>>
        /\ Logged("The following variables still don't have a value")
        /\ ~Logged("Rebuilding database...")
        /\ pc \in {"idle", "resolved"}

C6_Witness ==
    /\ RebuildRequested
    /\ cfg.databaseName /\ cfg.databaseKey /\ cfg.baseUrl /\ ~cfg.key
    /\ calls = <<>>

----------------------------------------------------------------------------
(* C7: in the fan-out variant, for every set F of web services whose       *)
(* event-detail fetch fails and every order in which the fetches complete, *)
(* fetchServices does not throw and returns exactly the services whose     *)
(* fetch succeeded, in listing order, with none of the failed ones.        *)

EventReplies == SelectSeq(replies, LAMBDA p : p.to.ep = "events")
FailedIds == {EventReplies[k].to.target :
                 k \in {j \in 1..Len(EventReplies) : EventReplies[j].r.throws}}
FanOutSettled ==
    /\ variant = "part_001"
    /\ ServicesListed
    /\ Len(EventReplies) = Len(WebServiceIds(svcListing))

C7_FanOutIsolation ==
    FanOutSettled =>
        LET ids == WebServiceIds(svcListing)
            expected == SelectSeq(ids, LAMBDA id : id \notin FailedIds)
        IN  /\ [k \in 1..Len(services) |-> Get(services[k], "id")] = expected
            /\ Len(services) = Len(ids) - Cardinality(FailedIds)
            /\ \A k \in 1..Len(services) : Get(services[k], "id") \notin FailedIds
            /\ ~Logged("Error fetching services")
            /\ Issued(DatabaseCall)

\* two web services, the second one's fetch completes first, one fetch fails
C7_Witness ==
    /\ FanOutSettled
    /\ Len(WebServiceIds(svcListing)) = 2
    /\ EventReplies[1].to.target = WebServiceIds(svcListing)[2]
    /\ Cardinality(FailedIds) = 1
    /\ Len(services) = 1

----------------------------------------------------------------------------
(* C8: for every service listing and every ordering of its entries,        *)
(* fetchServices retains exactly the entries whose service.type is         *)
(* "web_service", in their relative response order.                        *)

\* the ids of the entries the filter of fetchServices retained
KeptIds ==
    IF variant = "part_001"
    THEN [k \in 1..Len(fanServices) |-> fanServices[k].id]
    ELSE [k \in 1..Len(services) |-> services[k].service.id]
PositionIn(listing, id) ==
    CHOOSE j \in 1..Len(listing) : listing[j].service.id = id

C8_FilterWebServices ==
    ServicesListed =>
        /\ \A j \in 1..Len(svcListing) :
              (svcListing[j].service.type = "web_service")
                  <=> (\E k \in 1..Len(KeptIds) : KeptIds[k] = svcListing[j].service.id)
        /\ \A k \in 1..Len(KeptIds) :
              \E j \in 1..Len(svcListing) : svcListing[j].service.id = KeptIds[k]
        /\ Len(KeptIds) = Cardinality({j \in 1..Len(svcListing) :
                                          svcListing[j].service.type = "web_service"})
        /\ \A k1, k2 \in 1..Len(KeptIds) :
              k1 < k2 => PositionIn(svcListing, KeptIds[k1])
                             < PositionIn(svcListing, KeptIds[k2])

C8_Witness ==
    /\ ServicesListed
    /\ Len(svcListing) = 2
    /\ svcListing[1].service.type = "static_site"
    /\ svcListing[2].service.type = "web_service"
    /\ KeptIds = <<svcListing[2].service.id>>

----------------------------------------------------------------------------
(* C9: in the interactive variant the session is closed only after the     *)
(* chosen action has run to completion: while the session is closed the    *)
(* menu callback has finished and the rebuild workflow has no HTTP call    *)
(* outstanding or still to issue.                                          *)
C9_CloseAfterCompletion ==
    rl = "closed" => (mpc = "done" /\ pc \in {"idle", "resolved"})

\* the same for the choices other than 1, where it holds
C9_CloseAfterCompletionOthers ==
    (rl = "closed" /\ answer # "1") => (mpc = "done" /\ pc = "idle")

----------------------------------------------------------------------------
(* C10: when the owner lookup returns normally with a status other than    *)
(* 200, fetchOwner raises nothing and yields undefined; rebuildDatabase    *)
(* goes on through the service listing, the database listing and the       *)
(* deletion of an existing database, fails when owner.id is read for the   *)
(* creation, and issues no create, connection-info, env-var update or      *)
(* deploy call; no call follows the deletion.                              *)
C10_OwnerNot200 ==
    Answered("GET", "owners", IsNot200) =>
        /\ owner = Undefined
        /\ ~Logged("Error fetching owner")
        /\ Len(calls) >= 2 /\ calls[2] = ServicesCall
        /\ (ServicesListed /\ pc # "events") => Issued(DatabaseCall)
        /\ (DatabasesListed /\ dbListing # <<>>)
              => Issued(DeleteCall(dbListing[1].postgres.id))
        /\ (DatabasesListed /\ dbListing = <<>>)
              => (pc = "resolved" /\ Logged("Error during database rebuild"))
        /\ Answered("DELETE", "postgres", Is204)
              => (pc = "resolved" /\ Logged("Error during database rebuild"))
        /\ ~IssuedTo("POST", "postgres")
        /\ ~IssuedTo("GET", "connection-info")
        /\ ~IssuedTo("PUT", "env-vars")
        /\ ~IssuedTo("POST", "deploys")
        /\ \A k \in 1..Len(calls) : calls[k].method = "DELETE" => k = Len(calls)

C10_Witness ==
    /\ Answered("GET", "owners", IsNot200)
    /\ Answered("DELETE", "postgres", Is204)
    /\ Len(services) > 0
    /\ pc = "resolved"

----------------------------------------------------------------------------
(* C11: given a service listing whose entries have the shape               *)
(* {service: {id, type}}, every env-var PUT and every deploy POST issued   *)
(* by rebuildDatabase is addressed to the id of a web service present in   *)
(* that listing, never to an undefined or absent id.                       *)

WebServiceIdSet(listing) ==
    {WebServiceIds(listing)[k] : k \in 1..Len(WebServiceIds(listing))}

C11_TargetsAreListedWebServices ==
    \A k \in 1..Len(calls) :
        calls[k].ep \in {"env-vars", "deploys"} =>
            /\ ServicesListed
            /\ calls[k].target # UndefinedStr
            /\ calls[k].target \in WebServiceIdSet(svcListing)

\* C11 holds of part_001, whose fetchServices maps each entry to its service
C11_TargetsAreListedWebServicesMapped ==
    variant = "part_001" => C11_TargetsAreListedWebServices

----------------------------------------------------------------------------
(* C12: in the interactive variant, after choice 1, the process exit       *)
(* scheduled by the close of the session never occurs while the rebuild is *)
(* between its first mutating call and its last deploy: once a mutating    *)
(* call has been issued (in particular once the existing database has been *)
(* deleted), the process has not exited unless rebuildDatabase has run to  *)
(* its end or aborted on an error.                                         *)
SomeMutatingCall == \E k \in 1..Len(calls) : Mutating(calls[k])

C12_NoExitMidRebuild ==
    (variant = "index" /\ answer = "1" /\ exited /\ SomeMutatingCall)
        => pc = "resolved"

----------------------------------------------------------------------------
(* C13: whenever a run of rebuildDatabase reaches its completion log       *)
(* ("done!"), every service of type "web_service" in the service listing   *)
(* of that run has received an env-var update carrying the new connection  *)
(* string and a deploy, including, in part_001, the services whose         *)
(* event-detail fetch failed.                                              *)
C13_AllWebServicesRepointed ==
    Completed =>
        \A id \in WebServiceIdSet(svcListing) :
            /\ Issued(EnvVarCall(id, newDb.internalDatabaseUrl))
            /\ Issued(DeployCall(id))

\* C13 holds of part_001 for the runs in which no event-detail fetch failed
C13_AllWebServicesRepointedNoFailure ==
    (variant = "part_001" /\ FailedIds = {}) => C13_AllWebServicesRepointed

\* what the completion log does guarantee in every variant: one update with
\* the new connection string and one deploy for each element of services
C13_AllFetchedServicesProcessed ==
    Completed =>
        \A i \in 1..Len(services) :
            /\ Issued(EnvVarCall(ServiceId(services[i]), newDb.internalDatabaseUrl))
            /\ Issued(DeployCall(ServiceId(services[i])))

\* C13 for part_001 alone, where each PUT and deploy does go to service.id
C13_AllWebServicesRepointedFanOut ==
    variant = "part_001" => C13_AllWebServicesRepointed

----------------------------------------------------------------------------
(* C14: rebuildDatabase issues no mutating call (DELETE, POST, PUT) until  *)
(* the owner fetch, the service listing and the database listing have all  *)
(* returned; if one of these three reads throws, the run ends with no      *)
(* mutating call issued at all.                                            *)

\* one of the three reads of a run threw
ReadThrew ==
    \E k \in 1..Len(replies) :
        /\ replies[k].to \in {OwnerCall, ServicesCall, DatabaseCall}
        /\ AccessorThrew(replies[k])

C14_ReadsBeforeWrites ==
    /\ SomeMutatingCall =>
          /\ Answered("GET", "owners", IsOk)
          /\ ServicesListed
          /\ DatabasesListed
          /\ Len(EventReplies) = Len(fanServices)
          /\ SubSeq(MainCalls, 1, 3) = <<OwnerCall, ServicesCall, DatabaseCall>>
          /\ \A k \in 1..Len(MainCalls) : Mutating(MainCalls[k]) => k > 3
    /\ ReadThrew =>
          /\ ~SomeMutatingCall
          /\ Rebuilding => (pc = "resolved" /\ Logged("Error during database rebuild"))

\* the database listing throws after the owner and two web services were fetched
C14_Witness ==
    /\ Rebuilding
    /\ Answered("GET", "postgres", IsThrow)
    /\ owner # Undefined
    /\ Len(services) = 2
    /\ pc = "resolved"
    /\ ~SomeMutatingCall

----------------------------------------------------------------------------
(* C15: when the database listing is non-empty, rebuildDatabase issues     *)
(* exactly one DELETE, addressed to the id of the first database of the    *)
(* listing; the create-database call is issued only after that DELETE has  *)
(* returned with status 204; no other listed database receives a call.     *)
DeleteCalls == SelectSeq(calls, LAMBDA c : c.method = "DELETE")

C15_DeleteFirstThenCreate ==
    (Rebuilding /\ DatabasesListed /\ Len(dbListing) > 0) =>
        /\ DeleteCalls = <<DeleteCall(dbListing[1].postgres.id)>>
        /\ IssuedTo("POST", "postgres") => Answered("DELETE", "postgres", Is204)
        /\ \A k, m \in 1..Len(calls) :
              (calls[k].method = "DELETE" /\ calls[m] = CreateCall(calls[m].body)) => k < m
        /\ \A k \in 1..Len(calls) :
              \A j \in 2..Len(dbListing) : calls[k].target # dbListing[j].postgres.id

\* two databases listed, the first deleted, the new one created
C15_Witness ==
    /\ Rebuilding /\ DatabasesListed
    /\ Len(dbListing) = 2
    /\ IssuedTo("POST", "postgres")
    /\ IssuedTo("GET", "connection-info")

----------------------------------------------------------------------------
(* C16: in every run of rebuildDatabase the connection-info fetch is       *)
(* addressed to the id returned by the create-database call of that run,   *)
(* never to the id of a listed (deleted) database, and the value carried   *)
(* by every env-var PUT is the internalConnectionString of that            *)
(* connection-info response, the same for all services.                    *)
EnvVarCalls == SelectSeq(calls, LAMBDA c : c.ep = "env-vars")

C16_NewDatabaseConnectionString ==
    Rebuilding =>
        /\ \A k \in 1..Len(calls) :
              calls[k].ep = "connection-info" =>
                  /\ \E m \in 1..Len(replies) :
                        /\ replies[m].to.method = "POST"
                        /\ replies[m].to.ep = "postgres"
                        /\ ~replies[m].r.throws
                        /\ replies[m].r.data.id = calls[k].target
                  /\ \A j \in 1..Len(dbListing) :
                        calls[k].target # dbListing[j].postgres.id
        /\ \A k \in 1..Len(EnvVarCalls) :
              /\ \E m \in 1..Len(replies) :
                    /\ replies[m].to.ep = "connection-info"
                    /\ ~replies[m].r.throws
                    /\ replies[m].r.data.internalConnectionString = EnvVarCalls[k].body
              /\ EnvVarCalls[k].body = EnvVarCalls[1].body

\* an existing database was deleted and two services have been updated
C16_Witness ==
    /\ Rebuilding
    /\ Answered("DELETE", "postgres", Is204)
    /\ Len(EnvVarCalls) = 2

----------------------------------------------------------------------------
(* C17: in the interactive variant, for every menu answer and every        *)
(* outcome of the HTTP calls the chosen action makes, the interactive      *)
(* session is eventually closed and the process eventually exits,          *)
(* including choice 2 when no database exists and choices 2 and 3 when a   *)
(* fetch throws.                                                           *)
C17_EventuallyClosedAndExited ==
    (variant = "index") => <>(rl = "closed" /\ exited)

\* what does hold: the session is closed and the process exits whenever the
\* chosen action made no call that threw
MenuCallThrew == mpc \in {"rejected", "crashed", "warned"}

C17_ClosedAndExitedUnlessThrow ==
    (variant = "index") => <>(MenuCallThrew \/ (rl = "closed" /\ exited))

\* once a call of choice 2 or 3 has thrown, the session is never closed
C17_ThrowNeverCloses == MenuCallThrew => rl = "open" /\ timer = "none"

----------------------------------------------------------------------------
(* C18: no HTTP call is ever retried: within one run of rebuildDatabase    *)
(* each endpoint-and-target pair is requested at most once, so a run       *)
(* issues at most one DELETE and at most one create-database call.         *)
SameRequest(c, d) == c.method = d.method /\ c.ep = d.ep /\ c.target = d.target

C18_EachRequestOnce ==
    Rebuilding =>
        \A j \in 1..Len(calls) : \A k \in 1..Len(calls) :
            SameRequest(calls[j], calls[k]) => j = k

\* what does hold: where the services are mapped, no request is repeated
C18_EachRequestOnceMapped == variant = "part_001" => C18_EachRequestOnce

\* in every variant a run issues at most one DELETE and at most one create
CreateCalls == SelectSeq(calls, LAMBDA c : c.method = "POST" /\ c.ep = "postgres")

C18_AtMostOneDeleteAndCreate ==
    Rebuilding => Len(DeleteCalls) <= 1 /\ Len(CreateCalls) <= 1

\* and a call that threw outside the fan-out is the last call of the run:
\* rebuildDatabase's catch logs the error and the run ends
C18_NothingAfterThrow ==
    Rebuilding =>
        \A m \in 1..Len(replies) :
            (replies[m].r.throws /\ replies[m].to.ep # "events") =>
                /\ m = Len(replies)
                /\ replies[m].to = Last(calls)
                /\ pc = "resolved" /\ ~Logged("done!")

----------------------------------------------------------------------------
(* C19: fetchEventDetails returns the details and timestamp (as            *)
(* lastDeployed) of the latest "deploy_ended" event among the events       *)
(* returned for the service, whatever the order of the events in the       *)
(* response, ignores events of every other type, and returns an empty      *)
(* object when no "deploy_ended" event is present.                         *)
DeployEnded == {k \in 1..Len(events) : events[k].event.type = "deploy_ended"}

C19_LatestDeployEnded ==
    epc = "returned" =>
        IF DeployEnded = {}
        THEN DOMAIN latestDetails = {}
        ELSE \E k \in DeployEnded :
                /\ \A j \in DeployEnded :
                      events[j].event.timestamp <= events[k].event.timestamp
                /\ latestDetails = WithLastDeployed(events[k].event)

\* what does hold: the result is that of the "deploy_ended" event that comes
\* last in the response, events of other types are ignored and the result is
\* empty when there is none
C19_LastDeployEndedInResponseOrder ==
    epc = "returned" =>
        IF DeployEnded = {}
        THEN DOMAIN latestDetails = {}
        ELSE \E k \in DeployEnded :
                /\ \A j \in DeployEnded : j <= k
                /\ latestDetails = WithLastDeployed(events[k].event)

\* so the claim holds for responses that list the events oldest first
OldestFirst ==
    \A j \in 1..Len(events) : \A k \in 1..Len(events) :
        j <= k => events[j].event.timestamp <= events[k].event.timestamp

C19_LatestWhenOldestFirst == OldestFirst => C19_LatestDeployEnded

----------------------------------------------------------------------------
(* C20: a menu session reads exactly one answer and never re-prompts:      *)
(* answer 4 and every unrecognised answer make no HTTP call and close the  *)
(* session, and answers 2 and 3 issue only read (GET) calls, never a       *)
(* DELETE, POST or PUT.                                                    *)
C20_OneAnswerReadOnlyChoices ==
    (variant = "index" /\ answer # "") =>
        /\ mpc # "menu"
        /\ answer \notin {"1", "2", "3"} =>
              calls = <<>> /\ rl = "closed" /\ mpc = "done"
        /\ answer \in {"2", "3"} =>
              \A k \in 1..Len(calls) : calls[k].method = "GET" /\ ~Mutating(calls[k])

\* choice 2 has shown the database and its connection info and closed
C20_Witness ==
    /\ variant = "index" /\ answer = "2"
    /\ mpc = "done" /\ rl = "closed"
    /\ Len(calls) = 2

\* the answer, once read, is never replaced by another
C20_AnswerReadOnce == [][answer # "" => answer' = answer]_vars

====
